---- MODULE Spec2Model ----
(***************************************************************************)
(* Maze solver: the search engine (src/algorithms.py) over the grid model  *)
(* (src/maze.py).  A coordinate is a pair <<row, col>>, 0-based as in the  *)
(* source (TLA+ tuples are 1-indexed: cell[1] is the row, cell[2] the      *)
(* column).  Each public method of SearchAlgorithms is one action that     *)
(* runs the method's loop to completion.                                   *)
(***************************************************************************)
EXTENDS Integers, Sequences, FiniteSets, TLC

(***************************************************************************)
(* src/config.py                                                           *)
(***************************************************************************)
WALL == "1"
FREE == "0"
START == "S"
GOAL == "G"

\* Mutant of DIRECTIONS: clockwise from up.
DIRECTIONS_clockwise == << <<-1, 0>>, <<0, 1>>, <<1, 0>>, <<0, -1>> >>

\* right, down, left, up
DIRECTIONS == << <<0, 1>>, <<1, 0>>, <<0, -1>>, <<-1, 0>> >>

\* Python's None: the parent of the start, a missing dict key, "no path".
None == << >>

\* Maze.__init__(self, rows=15, cols=20)
DefaultRows == 15
DefaultCols == 20

(***************************************************************************)
(* Bounds of the model                                                     *)
(***************************************************************************)
\* The shapes (rows, cols) of the grids explored: a square, a corridor of two
\* rows long enough for A* to push a cell twice, and a single row that the
\* constructor's start (1, 1) lies outside of.
GridShapes == { <<3, 3>>, <<2, 5>>, <<1, 3>> }

\* At most this many Wall cells in a grid.
MaxWalls == 2

\* get_neighbors is probed at the coordinates up to this far outside the
\* grid, on every side.
ProbeMargin == 2

\* end_time - start_time: the measured duration is kept as one symbolic
\* value (any non-negative float); no property reads it.
Elapsed == "end_time - start_time"

VARIABLES
    maze,    \* the Maze object: rows, cols, grid, start, goal
    stats,   \* SearchAlgorithms.stats
    ret,     \* what the latest search call returned: a path or None
    drawn,   \* graphics.draw_visited_cell calls made by the latest call
    last,    \* history: the latest call (method, visualize, visit order)
    first,   \* history: what the first search call of the session returned
    raised,  \* the exception the latest call raised, None when it returned
    obtained,\* the record a caller holds from get_statistics(), None if none
    run,     \* the search call in progress and its locals, None between calls
    asked    \* the algorithm_name of the latest call if it was a
             \* run_algorithm call, None otherwise

vars == <<maze, stats, ret, drawn, last, first, raised, obtained, run, asked>>

(***************************************************************************)
(* Grid model: src/maze.py                                                 *)
(***************************************************************************)
is_valid_position(m, row, col) ==
    /\ 0 <= row /\ row < m.rows
    /\ 0 <= col /\ col < m.cols


\* Mutant of is_free_space: the Wall test left out.
is_free_space_any(m, row, col) == is_valid_position(m, row, col)

is_free_space(m, row, col) ==
    IF ~is_valid_position(m, row, col)
    THEN FALSE
    ELSE m.grid[row][col] # WALL

RECURSIVE neighbors_from(_, _, _, _)
neighbors_from(m, row, col, i) ==
    IF i > Len(DIRECTIONS)
    THEN << >>
    ELSE LET new_row == row + DIRECTIONS[i][1]
             new_col == col + DIRECTIONS[i][2]
             rest == neighbors_from(m, row, col, i + 1)
         IN  IF is_free_space(m, new_row, new_col)
             THEN << <<new_row, new_col>> >> \o rest
             ELSE rest

get_neighbors(m, row, col) == neighbors_from(m, row, col, 1)

(***************************************************************************)
(* Search engine: src/algorithms.py                                        *)
(***************************************************************************)
\* dict.get(key): the value, or None when the key is absent
Get(d, k) == IF k \in DOMAIN d THEN d[k] ELSE None

\* d[k] = v on a dict
Put(d, k, v) == [x \in (DOMAIN d) \cup {k} |-> IF x = k THEN v ELSE d[x]]

Reverse(s) == [i \in 1..Len(s) |-> s[Len(s) + 1 - i]]

RECURSIVE walk_back(_, _, _)
walk_back(parent, current, path) ==
    IF current = None
    THEN path
    ELSE walk_back(parent, Get(parent, current), Append(path, current))

\* Mutant of reconstruct_path: the start, which has no parent, left off the
\* path.
reconstruct_path_edges(parent, s, g) ==
    Tail(Reverse(walk_back(parent, g, << >>)))

reconstruct_path(parent, s, g) == Reverse(walk_back(parent, g, << >>))

Abs(x) == IF x < 0 THEN -x ELSE x


\* Mutant of manhattan_distance: an estimate that is not admissible, three
\* times the number of steps.
manhattan_distance_tripled(pos1, pos2) ==
    (Abs(pos1[1] - pos2[1]) + Abs(pos1[2] - pos2[2])) * 3

manhattan_distance(pos1, pos2) ==
    Abs(pos1[1] - pos2[1]) + Abs(pos1[2] - pos2[2])


\* Mutant of Visualize: the visualize flag ignored.
Visualize_always(calls, visualize, current, s, tag) ==
    IF current # s
    THEN Append(calls, <<current[1], current[2], tag>>)
    ELSE calls

\* Mutant of Visualize: the start cell drawn like any other.
Visualize_start(calls, visualize, current, s, tag) ==
    IF visualize
    THEN Append(calls, <<current[1], current[2], tag>>)
    ELSE calls

\* The hook call draw_visited_cell(row, col, tag), made unless the cell is
\* the start or visualize is off.
Visualize(calls, visualize, current, s, tag) ==
    IF visualize /\ current # s
    THEN Append(calls, <<current[1], current[2], tag>>)
    ELSE calls

\* Mutant of MakeStats: the path's edges are counted, not its cells.
MakeStats_edges(name, nodes_visited, path_length, path_found) ==
    [algorithm |-> name, nodes_visited |-> nodes_visited,
     path_length |-> IF path_found THEN path_length - 1 ELSE path_length,
     time |-> Elapsed,
     path_found |-> path_found]

\* The statistics record a search stores in self.stats.
MakeStats(name, nodes_visited, path_length, path_found) ==
    [algorithm |-> name, nodes_visited |-> nodes_visited,
     path_length |-> path_length, time |-> Elapsed,
     path_found |-> path_found]

---------------------------------------------------------------------------

\* Mutant of popleft: deque.pop(), which takes the newest item.
popleft_newest(queue) ==
    [item |-> queue[Len(queue)], rest |-> SubSeq(queue, 1, Len(queue) - 1)]

\* deque.popleft(): the item taken and the queue left
popleft(queue) == [item |-> Head(queue), rest |-> Tail(queue)]


\* Mutant of bfs_init: the counter kept from the run before (as if it were
\* an attribute of the engine that bfs() does not reset).
bfs_init_kept(m) ==
    [queue |-> << m.start >>,
     visited |-> { m.start },
     parent |-> (m.start :> None),
     nodes_visited |-> IF stats = << >> THEN 0 ELSE stats.nodes_visited,
     calls |-> << >>,
     order |-> << >>,
     returned |-> FALSE,
     path |-> None,
     stats |-> << >>]

\* bfs(): locals after line 41
bfs_init(m) ==
    [queue |-> << m.start >>,
     visited |-> { m.start },
     parent |-> (m.start :> None),
     nodes_visited |-> 0,
     calls |-> << >>,
     order |-> << >>,
     returned |-> FALSE,
     path |-> None,
     stats |-> << >>]

\* Mutant of bfs_explore: queue.appendleft(neighbor).
RECURSIVE bfs_explore_front(_, _, _, _)
bfs_explore_front(st, current, nbrs, i) ==
    IF i > Len(nbrs)
    THEN st
    ELSE LET neighbor == nbrs[i]
         IN  IF neighbor \notin st.visited
             THEN bfs_explore_front(
                      [st EXCEPT !.visited = @ \cup {neighbor},
                                 !.parent = Put(@, neighbor, current),
                                 !.queue = << neighbor >> \o @],
                      current, nbrs, i + 1)
             ELSE bfs_explore_front(st, current, nbrs, i + 1)

\* for neighbor in get_neighbors(current): lines 67-71
RECURSIVE bfs_explore(_, _, _, _)
bfs_explore(st, current, nbrs, i) ==
    IF i > Len(nbrs)
    THEN st
    ELSE LET neighbor == nbrs[i]
         IN  IF neighbor \notin st.visited
             THEN bfs_explore(
                      [st EXCEPT !.visited = @ \cup {neighbor},
                                 !.parent = Put(@, neighbor, current),
                                 !.queue = Append(@, neighbor)],
                      current, nbrs, i + 1)
             ELSE bfs_explore(st, current, nbrs, i + 1)

\* one iteration of `while queue`: lines 44-71
bfs_step(m, visualize, st) ==
    LET current == popleft(st.queue).item
        s1 == [st EXCEPT !.queue = popleft(@).rest,
                         !.nodes_visited = @ + 1,
                         !.order = Append(@, current),
                         !.calls = Visualize(@, visualize, current, m.start, "BFS")]
    IN  IF current = m.goal
        THEN LET path == reconstruct_path(s1.parent, m.start, m.goal)
             IN  [s1 EXCEPT !.returned = TRUE,
                            !.path = path,
                            !.stats = MakeStats("BFS", s1.nodes_visited, Len(path), TRUE)]
        ELSE bfs_explore(s1, current, get_neighbors(m, current[1], current[2]), 1)

\* Mutant of bfs_no_path: the failed search recorded as one that found a
\* path.
bfs_no_path_as_found(st) ==
    [st EXCEPT !.returned = TRUE,
               !.path = None,
               !.stats = MakeStats("BFS", st.nodes_visited, 0, TRUE)]

\* the queue ran empty: lines 73-83
bfs_no_path(st) ==
    [st EXCEPT !.returned = TRUE,
               !.path = None,
               !.stats = MakeStats("BFS", st.nodes_visited, 0, FALSE)]

RECURSIVE bfs_loop(_, _, _)
bfs_loop(m, visualize, st) ==
    IF st.returned
    THEN st
    ELSE IF st.queue = << >>
         THEN bfs_no_path(st)
         ELSE bfs_loop(m, visualize, bfs_step(m, visualize, st))

bfs(m, visualize) == bfs_loop(m, visualize, bfs_init(m))

---------------------------------------------------------------------------
\* list.pop(): the last item of the list and the list left
pop(stack) ==
    [item |-> stack[Len(stack)], rest |-> SubSeq(stack, 1, Len(stack) - 1)]

\* dfs(): locals after line 95; the top of the stack is the end of the list
dfs_init(m) ==
    [stack |-> << m.start >>,
     visited |-> { m.start },
     parent |-> (m.start :> None),
     nodes_visited |-> 0,
     calls |-> << >>,
     order |-> << >>,
     returned |-> FALSE,
     path |-> None,
     stats |-> << >>]

\* Mutant of dfs_explore: the list is gone through from its end.
RECURSIVE dfs_explore_backwards(_, _, _, _)
dfs_explore_backwards(st, current, nbrs, i) ==
    IF i > Len(nbrs)
    THEN st
    ELSE LET neighbor == nbrs[Len(nbrs) + 1 - i]
         IN  IF neighbor \notin st.visited
             THEN dfs_explore_backwards(
                      [st EXCEPT !.visited = @ \cup {neighbor},
                                 !.parent = Put(@, neighbor, current),
                                 !.stack = Append(@, neighbor)],
                      current, nbrs, i + 1)
             ELSE dfs_explore_backwards(st, current, nbrs, i + 1)

\* for neighbor in reversed(neighbors): lines 122-126
RECURSIVE dfs_explore(_, _, _, _)
dfs_explore(st, current, nbrs, i) ==
    IF i > Len(nbrs)
    THEN st
    ELSE LET neighbor == nbrs[i]
         IN  IF neighbor \notin st.visited
             THEN dfs_explore(
                      [st EXCEPT !.visited = @ \cup {neighbor},
                                 !.parent = Put(@, neighbor, current),
                                 !.stack = Append(@, neighbor)],
                      current, nbrs, i + 1)
             ELSE dfs_explore(st, current, nbrs, i + 1)

\* one iteration of `while stack`: lines 98-126
dfs_step(m, visualize, st) ==
    LET current == pop(st.stack).item
        s1 == [st EXCEPT !.stack = pop(@).rest,
                         !.nodes_visited = @ + 1,
                         !.order = Append(@, current),
                         !.calls = Visualize(@, visualize, current, m.start, "DFS")]
    IN  IF current = m.goal
        THEN LET path == reconstruct_path(s1.parent, m.start, m.goal)
             IN  [s1 EXCEPT !.returned = TRUE,
                            !.path = path,
                            !.stats = MakeStats("DFS", s1.nodes_visited, Len(path), TRUE)]
        ELSE dfs_explore(s1, current,
                         Reverse(get_neighbors(m, current[1], current[2])), 1)

\* Mutant of dfs_no_path: the loop keeps polling the empty stack and the
\* call does not return.
dfs_no_path_polling(st) == st

\* the stack ran empty: lines 128-138
dfs_no_path(st) ==
    [st EXCEPT !.returned = TRUE,
               !.path = None,
               !.stats = MakeStats("DFS", st.nodes_visited, 0, FALSE)]

RECURSIVE dfs_loop(_, _, _)
dfs_loop(m, visualize, st) ==
    IF st.returned
    THEN st
    ELSE IF st.stack = << >>
         THEN dfs_no_path(st)
         ELSE dfs_loop(m, visualize, dfs_step(m, visualize, st))

dfs(m, visualize) == dfs_loop(m, visualize, dfs_init(m))

---------------------------------------------------------------------------
\* Mutant of EntryLess: the entries are compared by f_score alone.
EntryLess_by_score(a, b) == a[1] < b[1]

\* Python's order on the heap entries (f_score, (row, col)): tuples compare
\* item by item.
EntryLess(a, b) ==
    \/ a[1] < b[1]
    \/ /\ a[1] = b[1]
       /\ \/ a[2][1] < b[2][1]
          \/ a[2][1] = b[2][1] /\ a[2][2] < b[2][2]

\* heapq.heappush: the heap is kept as the list of its entries in ascending
\* order, so that heappop takes the head.
RECURSIVE heappush(_, _)
heappush(heap, entry) ==
    IF heap = << >>
    THEN << entry >>
    ELSE IF EntryLess(entry, Head(heap))
         THEN << entry >> \o heap
         ELSE << Head(heap) >> \o heappush(Tail(heap), entry)

\* Mutant of heappop: the greatest entry is taken.
heappop_greatest(heap) ==
    [item |-> heap[Len(heap)], rest |-> SubSeq(heap, 1, Len(heap) - 1)]

\* heapq.heappop: the least entry and the heap left
heappop(heap) == [item |-> Head(heap), rest |-> Tail(heap)]


\* Mutant of already_visited: the test for a closed cell left out.
already_visited_never(st, current) == FALSE

\* `if current in visited: continue`, line 158
already_visited(st, current) == current \in st.visited

\* astar(): locals after line 152
astar_init(m) ==
    [open_set |-> << <<0, m.start>> >>,
     came_from |-> << >>,
     g_score |-> (m.start :> 0),
     f_score |-> (m.start :> manhattan_distance(m.start, m.goal)),
     visited |-> { },
     nodes_visited |-> 0,
     calls |-> << >>,
     order |-> << >>,
     discarded |-> 0,
     returned |-> FALSE,
     path |-> None,
     stats |-> << >>]

\* Mutant of astar_explore: came_from[current] = neighbor.
RECURSIVE astar_explore_swapped(_, _, _, _, _)
astar_explore_swapped(m, st, current, nbrs, i) ==
    IF i > Len(nbrs)
    THEN st
    ELSE LET neighbor == nbrs[i]
             tentative_g == st.g_score[current] + 1
             f == tentative_g + manhattan_distance(neighbor, m.goal)
         IN  IF neighbor \in st.visited
             THEN astar_explore_swapped(m, st, current, nbrs, i + 1)
             ELSE IF neighbor \notin DOMAIN st.g_score
                     \/ tentative_g < st.g_score[neighbor]
                  THEN astar_explore_swapped(m,
                           [st EXCEPT !.came_from = Put(@, current, neighbor),
                                      !.g_score = Put(@, neighbor, tentative_g),
                                      !.f_score = Put(@, neighbor, f),
                                      !.open_set = heappush(@, <<f, neighbor>>)],
                           current, nbrs, i + 1)
                  ELSE astar_explore_swapped(m, st, current, nbrs, i + 1)

\* for neighbor in get_neighbors(current): lines 184-196
RECURSIVE astar_explore(_, _, _, _, _)
astar_explore(m, st, current, nbrs, i) ==
    IF i > Len(nbrs)
    THEN st
    ELSE LET neighbor == nbrs[i]
             tentative_g == st.g_score[current] + 1
             f == tentative_g + manhattan_distance(neighbor, m.goal)
         IN  IF neighbor \in st.visited
             THEN astar_explore(m, st, current, nbrs, i + 1)
             ELSE IF neighbor \notin DOMAIN st.g_score
                     \/ tentative_g < st.g_score[neighbor]
                  THEN astar_explore(m,
                           [st EXCEPT !.came_from = Put(@, neighbor, current),
                                      !.g_score = Put(@, neighbor, tentative_g),
                                      !.f_score = Put(@, neighbor, f),
                                      !.open_set = heappush(@, <<f, neighbor>>)],
                           current, nbrs, i + 1)
                  ELSE astar_explore(m, st, current, nbrs, i + 1)

\* one iteration of `while open_set`: lines 156-196
astar_step(m, visualize, st) ==
    LET current == heappop(st.open_set).item[2]
        s0 == [st EXCEPT !.open_set = heappop(@).rest]
    IN  IF already_visited(st, current)
        THEN [s0 EXCEPT !.discarded = @ + 1]
        ELSE LET s1 == [s0 EXCEPT !.visited = @ \cup {current},
                                  !.nodes_visited = @ + 1,
                                  !.order = Append(@, current),
                                  !.calls = Visualize(@, visualize, current,
                                                      m.start, "ASTAR")]
             IN  IF current = m.goal
                 THEN LET path == reconstruct_path(s1.came_from, m.start, m.goal)
                      IN  [s1 EXCEPT !.returned = TRUE,
                                     !.path = path,
                                     !.stats = MakeStats("A*", s1.nodes_visited,
                                                         Len(path), TRUE)]
                 ELSE astar_explore(m, s1, current,
                                    get_neighbors(m, current[1], current[2]), 1)

\* the frontier ran empty: lines 198-208
astar_no_path(st) ==
    [st EXCEPT !.returned = TRUE,
               !.path = None,
               !.stats = MakeStats("A*", st.nodes_visited, 0, FALSE)]

RECURSIVE astar_loop(_, _, _)
astar_loop(m, visualize, st) ==
    IF st.returned
    THEN st
    ELSE IF st.open_set = << >>
         THEN astar_no_path(st)
         ELSE astar_loop(m, visualize, astar_step(m, visualize, st))

astar(m, visualize) == astar_loop(m, visualize, astar_init(m))

---------------------------------------------------------------------------
(***************************************************************************)
(* The state machine.  A Maze comes out of its constructor with start and  *)
(* goal set; load_from_list then replaces rows, cols and grid, and moves   *)
(* start (goal) to the grid's Start (Goal) cell when the grid has one.     *)
(* When it has none the attribute keeps the coordinate it had, which may   *)
(* lie on a Wall of the new grid or outside it.                            *)
(***************************************************************************)
CellsOf(shape) == (0 .. shape[1] - 1) \X (0 .. shape[2] - 1)

\* Maze(): the attributes _set_start_goal leaves, whichever grid the
\* constructor generated (the grid itself is replaced by load_from_list).
Constructed ==
    [rows |-> DefaultRows,
     cols |-> DefaultCols,
     start |-> <<1, 1>>,
     goal |-> <<DefaultRows - 2, DefaultCols - 2>>]

\* The 2-D list with these Wall cells, Start at s and Goal at g (None: the
\* list has no such cell), Free elsewhere.
MazeList(shape, walls, s, g) ==
    [r \in 0 .. shape[1] - 1 |->
       [c \in 0 .. shape[2] - 1 |->
          IF <<r, c>> \in walls THEN WALL
          ELSE IF <<r, c>> = s THEN START
          ELSE IF <<r, c>> = g THEN GOAL
          ELSE FREE]]

\* The cells of the list that hold v, in row-major order of the scan.
Holding(maze_list, shape, v) ==
    {c \in CellsOf(shape) : maze_list[c[1]][c[2]] = v}

\* The last cell of S in row-major order: the one the scan of lines 284-289
\* assigns last.
LastOf(S) ==
    CHOOSE c \in S : \A d \in S :
        d[1] < c[1] \/ (d[1] = c[1] /\ d[2] <= c[2])

\* load_from_list(maze_list) on the Maze m
load_from_list(m, maze_list, shape) ==
    [rows |-> shape[1],
     cols |-> shape[2],
     grid |-> maze_list,
     start |-> IF Holding(maze_list, shape, START) = {}
               THEN m.start
               ELSE LastOf(Holding(maze_list, shape, START)),
     goal |-> IF Holding(maze_list, shape, GOAL) = {}
              THEN m.goal
              ELSE LastOf(Holding(maze_list, shape, GOAL))]

\* The lists loaded: at most MaxWalls Wall cells, at most one Start and at
\* most one Goal, on cells that are not Wall.
MazeLists(shape) ==
    {MazeList(shape, walls, s, g) :
        <<walls, s, g>> \in
            {x \in (SUBSET CellsOf(shape)) \X (CellsOf(shape) \cup {None})
                                          \X (CellsOf(shape) \cup {None}) :
                /\ Cardinality(x[1]) <= MaxWalls
                /\ x[2] \notin x[1]
                /\ x[3] \notin x[1]
                /\ x[2] = None \/ x[2] # x[3]}}

\* The session starts with the Maze constructed and one list loaded.
Init ==
    /\ \E shape \in GridShapes :
         \E maze_list \in MazeLists(shape) :
            maze = load_from_list(Constructed, maze_list, shape)
    /\ stats = << >>
    /\ ret = None
    /\ drawn = << >>
    /\ last = None
    /\ first = None
    /\ raised = None
    /\ obtained = None
    /\ run = None
    /\ asked = None


\* Mutant of Return: the search leaves a mark in the grid on every Free cell
\* it visited.
Return_marking(method, visualize, r) ==
    /\ stats' = r.stats
    /\ raised' = None
    /\ run' = None
    /\ obtained' = IF obtained = None THEN None
                   ELSE [obtained EXCEPT !.same = FALSE]
    /\ ret' = r.path
    /\ drawn' = r.calls
    /\ last' = [method |-> method, visualize |-> visualize, order |-> r.order,
                discarded |-> IF method = "astar" THEN r.discarded ELSE 0]
    /\ first' = IF first = None
                THEN [method |-> method, path |-> r.path,
                      nodes_visited |-> r.stats.nodes_visited,
                      path_length |-> r.stats.path_length,
                      path_found |-> r.stats.path_found]
                ELSE first
    /\ maze' = [maze EXCEPT !.grid =
                  [row \in DOMAIN @ |-> [col \in DOMAIN @[row] |->
                      IF @[row][col] = FREE
                         /\ \E i \in 1 .. Len(r.order) : r.order[i] = <<row, col>>
                      THEN "V" ELSE @[row][col]]]]

\* A search call returns: r is the method's final local state.  self.stats
\* is bound to a new dict, so a record obtained before is no longer the
\* object self.stats names.
Return(method, visualize, r) ==
    /\ stats' = r.stats
    /\ raised' = None
    /\ run' = None
    /\ obtained' = IF obtained = None THEN None
                   ELSE [obtained EXCEPT !.same = FALSE]
    /\ ret' = r.path
    /\ drawn' = r.calls
    /\ last' = [method |-> method, visualize |-> visualize, order |-> r.order,
                discarded |-> IF method = "astar" THEN r.discarded ELSE 0]
    /\ first' = IF first = None
                THEN [method |-> method, path |-> r.path,
                      nodes_visited |-> r.stats.nodes_visited,
                      path_length |-> r.stats.path_length,
                      path_found |-> r.stats.path_found]
                ELSE first
    /\ UNCHANGED maze

Bfs(visualize) ==
    /\ Return("bfs", visualize, bfs(maze, visualize))
    /\ asked' = None

Dfs(visualize) ==
    /\ Return("dfs", visualize, dfs(maze, visualize))
    /\ asked' = None

Astar(visualize) ==
    /\ Return("astar", visualize, astar(maze, visualize))
    /\ asked' = None

Next ==
    \E visualize \in BOOLEAN :
        \/ Bfs(visualize)
        \/ Dfs(visualize)
        \/ Astar(visualize)

Spec == Init /\ [][Next]_vars

---------------------------------------------------------------------------
(***************************************************************************)
(* One search call, iteration by iteration.  run holds the method, its     *)
(* visualize argument and its locals; each pass of the method's while loop *)
(* is one step, the exit of the loop with the frontier empty another, and  *)
(* the return to the caller the last.  The call runs on the caller's       *)
(* thread without suspension, so a step that can be taken is taken.        *)
(***************************************************************************)
Methods == { "bfs", "dfs", "astar" }

\* the locals of the method as the call enters its loop
Entered(method, m) ==
    CASE method = "bfs" -> bfs_init(m)
      [] method = "dfs" -> dfs_init(m)
      [] method = "astar" -> astar_init(m)

\* A call of a search method has been entered on a Maze that was
\* constructed and then loaded with a list of one of the shapes.
EnteredOn(shapes) ==
    /\ \E shape \in shapes :
         \E maze_list \in MazeLists(shape) :
            maze = load_from_list(Constructed, maze_list, shape)
    /\ \E method \in Methods : \E visualize \in BOOLEAN :
         run = [method |-> method, visualize |-> visualize,
                st |-> Entered(method, maze)]
    /\ stats = << >>
    /\ ret = None
    /\ drawn = << >>
    /\ last = None
    /\ first = None
    /\ raised = None
    /\ obtained = None
    /\ asked = None

SearchInit == EnteredOn(GridShapes)

Running(method) ==
    /\ run # None
    /\ run.method = method
    /\ ~run.st.returned

Iterate(st) ==
    /\ run' = [run EXCEPT !.st = st]
    /\ UNCHANGED <<maze, stats, ret, drawn, last, first, raised, obtained,
                   asked>>

BfsIterate ==
    /\ Running("bfs")
    /\ run.st.queue # << >>
    /\ Iterate(bfs_step(maze, run.visualize, run.st))

BfsExhausted ==
    /\ Running("bfs")
    /\ run.st.queue = << >>
    /\ Iterate(bfs_no_path(run.st))

DfsIterate ==
    /\ Running("dfs")
    /\ run.st.stack # << >>
    /\ Iterate(dfs_step(maze, run.visualize, run.st))

DfsExhausted ==
    /\ Running("dfs")
    /\ run.st.stack = << >>
    /\ Iterate(dfs_no_path(run.st))

AstarIterate ==
    /\ Running("astar")
    /\ run.st.open_set # << >>
    /\ Iterate(astar_step(maze, run.visualize, run.st))

AstarExhausted ==
    /\ Running("astar")
    /\ run.st.open_set = << >>
    /\ Iterate(astar_no_path(run.st))

SearchReturn ==
    /\ run # None
    /\ run.st.returned
    /\ Return(run.method, run.visualize, run.st)
    /\ asked' = None

SearchNext ==
    \/ BfsIterate
    \/ BfsExhausted
    \/ DfsIterate
    \/ DfsExhausted
    \/ AstarIterate
    \/ AstarExhausted
    \/ SearchReturn

SearchSpec == SearchInit /\ [][SearchNext]_vars

\* The grids on which the calls are followed to their end.
TerminationShapes == { <<2, 3>>, <<1, 3>> }

TerminationInit == EnteredOn(TerminationShapes)

\* The thread in the call keeps running: a step that stays possible is
\* taken.
TerminationSpec ==
    TerminationInit /\ [][SearchNext]_vars /\ WF_vars(SearchNext)

---------------------------------------------------------------------------
(***************************************************************************)
(* The whole surface of SearchAlgorithms: the three searches called        *)
(* directly, run_algorithm and get_statistics, and a caller that writes    *)
(* into the record it obtained.  An algorithm_name is the sequence of its  *)
(* characters.                                                             *)
(***************************************************************************)
LowerCase ==
    << "a", "b", "c", "d", "e", "f", "g", "h", "i", "j", "k", "l", "m",
       "n", "o", "p", "q", "r", "s", "t", "u", "v", "w", "x", "y", "z" >>

UpperCase ==
    << "A", "B", "C", "D", "E", "F", "G", "H", "I", "J", "K", "L", "M",
       "N", "O", "P", "Q", "R", "S", "T", "U", "V", "W", "X", "Y", "Z" >>

\* str.upper() on one character: a lower-case letter becomes its capital,
\* any other character stays
upper_char(ch) ==
    IF \E i \in 1 .. Len(LowerCase) : LowerCase[i] = ch
    THEN UpperCase[CHOOSE i \in 1 .. Len(LowerCase) : LowerCase[i] = ch]
    ELSE ch

\* Mutant of upper: the name compared as it was given.
upper_as_given(name) == name

\* algorithm_name.upper()
upper(name) == [i \in 1 .. Len(name) |-> upper_char(name[i])]

\* run_algorithm(algorithm_name, visualize) on the engine whose statistics
\* are self_stats: the method dispatched to and its final local state (ok),
\* or the exception raised, with the hook calls made and self.stats as left.
run_algorithm(m, self_stats, algorithm_name, visualize) ==
    LET name == upper(algorithm_name)
    IN  IF name = << "B", "F", "S" >>
        THEN [ok |-> TRUE, method |-> "bfs", r |-> bfs(m, visualize)]
        ELSE IF name = << "D", "F", "S" >>
        THEN [ok |-> TRUE, method |-> "dfs", r |-> dfs(m, visualize)]
        ELSE IF name \in { << "A", "S", "T", "A", "R" >>, << "A", "*" >> }
        THEN [ok |-> TRUE, method |-> "astar", r |-> astar(m, visualize)]
        ELSE [ok |-> FALSE, error |-> "ValueError", calls |-> << >>,
              stats |-> self_stats]

\* The names passed to run_algorithm.
AlgorithmNames ==
    { << "b", "f", "s" >>, << "D", "F", "S" >>,
      << "A", "s", "t", "a", "R" >>, << "a", "*" >>,
      << >>, << "b", "f", "s", " " >>, << "a", "-", "s", "t", "a", "r" >>,
      << "d", "i", "j", "k", "s", "t", "r", "a" >> }

\* A call raises: the exception and the hook calls made before it are
\* recorded; what the latest completed search left is kept.
Raise(error, calls, self_stats) ==
    /\ raised' = [error |-> error, calls |-> calls]
    /\ stats' = self_stats
    /\ UNCHANGED <<maze, ret, drawn, last, first, obtained, run>>

RunAlgorithm(algorithm_name, visualize) ==
    LET call == run_algorithm(maze, stats, algorithm_name, visualize)
    IN  /\ asked' = [name |-> algorithm_name]
        /\ IF call.ok
           THEN Return(call.method, visualize, call.r)
           ELSE Raise(call.error, call.calls, call.stats)

\* Mutant of get_statistics: self.stats itself is handed out.
get_statistics_alias(self_stats) == [same |-> TRUE, record |-> self_stats]

\* get_statistics(): self.stats.copy(), a new dict with the same items; the
\* caller's reference is not the object self.stats names.
get_statistics(self_stats) == [same |-> FALSE, record |-> self_stats]

GetStatistics ==
    /\ obtained' = get_statistics(stats)
    /\ UNCHANGED <<maze, stats, ret, drawn, last, first, raised, run, asked>>

\* The keys and values a caller writes into the record it holds.
WrittenKeys == { "nodes_visited" }
WrittenValues == { -1 }

\* obtained[key] = value, by the caller; self.stats changes with it when the
\* two are one object.
ModifyObtained(key, value) ==
    /\ obtained # None
    /\ obtained' = [obtained EXCEPT !.record = Put(@, key, value)]
    /\ stats' = IF obtained.same THEN Put(stats, key, value) ELSE stats
    /\ UNCHANGED <<maze, ret, drawn, last, first, raised, run, asked>>

\* The grids of the sessions that exercise the whole surface.
EngineShapes == { <<1, 3>> }

EngineInit ==
    /\ \E shape \in EngineShapes :
         \E maze_list \in MazeLists(shape) :
            maze = load_from_list(Constructed, maze_list, shape)
    /\ stats = << >>
    /\ ret = None
    /\ drawn = << >>
    /\ last = None
    /\ first = None
    /\ raised = None
    /\ obtained = None
    /\ run = None
    /\ asked = None

EngineNext ==
    \/ \E visualize \in BOOLEAN :
          \/ Bfs(visualize)
          \/ Dfs(visualize)
          \/ Astar(visualize)
          \/ \E algorithm_name \in AlgorithmNames :
                RunAlgorithm(algorithm_name, visualize)
    \/ GetStatistics
    \/ \E key \in WrittenKeys : \E value \in WrittenValues :
          ModifyObtained(key, value)

EngineSpec == EngineInit /\ [][EngineNext]_vars

---------------------------------------------------------------------------
(***************************************************************************)
(* Reference notions the properties are stated with: the passable-cell     *)
(* graph of a maze, defined from the grid alone.                           *)
(***************************************************************************)
GridCells(m) == (0 .. m.rows - 1) \X (0 .. m.cols - 1)

\* in bounds and not Wall
Passable(m, c) == c \in GridCells(m) /\ m.grid[c[1]][c[2]] # WALL

\* one orthogonal step apart
Adjacent(c, d) == Abs(c[1] - d[1]) + Abs(c[2] - d[2]) = 1

\* the passable cells one orthogonal step from the coordinate c
Steps(m, c) ==
    {d \in {<<c[1] + 1, c[2]>>, <<c[1] - 1, c[2]>>,
            <<c[1], c[2] + 1>>, <<c[1], c[2] - 1>>} : Passable(m, d)}

\* the passable cells one step from a coordinate of S that are not in seen
Grow(m, seen, S) == (UNION {Steps(m, c) : c \in S}) \ seen

RECURSIVE Closure(_, _, _)
Closure(m, seen, S) ==
    IF S = {} THEN seen
    ELSE LET new == Grow(m, seen, S) IN Closure(m, seen \cup new, new)

\* the coordinates reachable from the start, the start included
ReachableCells(m) == Closure(m, {m.start}, {m.start})

GoalReachable(m) == m.goal \in ReachableCells(m)

\* the number of edges of a shortest route from S to the goal
RECURSIVE DistanceFrom(_, _, _, _)
DistanceFrom(m, seen, S, k) ==
    IF m.goal \in S THEN k
    ELSE LET new == Grow(m, seen, S)
         IN  DistanceFrom(m, seen \cup new, new, k + 1)

\* defined when the goal is reachable
Distance(m) == DistanceFrom(m, {m.start}, {m.start}, 0)

\* start and goal are distinct cells of the grid that are not Wall
WellFormed(m) ==
    /\ Passable(m, m.start)
    /\ Passable(m, m.goal)
    /\ m.start # m.goal

Called(method) == last # None /\ last.method = method

---------------------------------------------------------------------------
\* C1: whenever the goal is reachable from the start through passable
\* cells, the path bfs() returns has exactly as many edges as a shortest
\* route: len(path) - 1 is the graph distance from start to goal.
C1_BfsShortest ==
    (Called("bfs") /\ GoalReachable(maze))
        => (ret # None /\ Len(ret) - 1 = Distance(maze))

\* bfs() has returned a path that had to go round a wall: it is longer than
\* the Manhattan distance between two well-formed endpoints.
C1_Witness ==
    /\ Called("bfs")
    /\ WellFormed(maze)
    /\ ret # None
    /\ Len(ret) - 1 = Distance(maze)
    /\ Len(ret) - 1 > manhattan_distance(maze.start, maze.goal)

\* C2: whenever the goal is reachable, astar() returns a path with the same
\* number of edges as the path bfs() returns on the same maze (here: the
\* session's first call and its latest call are one bfs() and one astar()).
C2_AstarMatchesBfs ==
    (/\ first # None
     /\ {first.method, last.method} = {"bfs", "astar"}
     /\ GoalReachable(maze))
        => (/\ ret # None
            /\ first.path # None
            /\ Len(ret) - 1 = Len(first.path) - 1)

\* astar() has returned a path after bfs() did, on a well-formed maze where
\* the route goes round a wall.
C2_Witness ==
    /\ first # None
    /\ first.method = "bfs"
    /\ Called("astar")
    /\ WellFormed(maze)
    /\ ret # None
    /\ Len(ret) = Len(first.path)
    /\ Len(ret) - 1 > manhattan_distance(maze.start, maze.goal)

---------------------------------------------------------------------------
\* p runs from the start to the goal, each step one orthogonal move between
\* two cells that are in bounds and not Wall
PathValid(m, p) ==
    /\ p[1] = m.start
    /\ p[Len(p)] = m.goal
    /\ \A i \in 1 .. Len(p) - 1 :
           /\ Adjacent(p[i], p[i + 1])
           /\ Passable(m, p[i])
           /\ Passable(m, p[i + 1])

\* C3: every path bfs(), dfs() or astar() returns starts at maze.start, ends
\* at maze.goal, and each consecutive pair of it is one orthogonal step
\* between two cells that are in bounds and not Wall.
C3_PathValid ==
    (last # None /\ ret # None) => PathValid(maze, ret)

\* The same on the mazes whose start is a cell that is not Wall.
C3_PathValidFromCell ==
    (last # None /\ ret # None /\ Passable(maze, maze.start))
        => PathValid(maze, ret)

NoRepeats(p) == \A i, j \in 1 .. Len(p) : p[i] = p[j] => i = j

\* C4: a path dfs() returns is simple: no coordinate occurs in it twice, and
\* every cell on it is passable.
C4_DfsSimplePath ==
    (Called("dfs") /\ ret # None)
        => (NoRepeats(ret) /\ \A i \in 1 .. Len(ret) : Passable(maze, ret[i]))

\* The same on the mazes whose start is a cell that is not Wall.
C4_DfsSimplePathFromCell ==
    (Called("dfs") /\ ret # None /\ Passable(maze, maze.start))
        => (NoRepeats(ret) /\ \A i \in 1 .. Len(ret) : Passable(maze, ret[i]))

\* C5: each of bfs(), dfs() and astar() returns a path exactly when the goal
\* is reachable from the start through passable cells; when it is not, the
\* call returns None and records path_found = false and path_length = 0.
C5_PathIffReachable ==
    last # None =>
        LET reachable == GoalReachable(maze)
        IN  /\ (ret # None) <=> reachable
            /\ ~reachable =>
                   (ret = None /\ ~stats.path_found /\ stats.path_length = 0)
            /\ stats.path_found <=> (ret # None)

\* A search has failed on a maze whose start and goal are cells that are
\* not Wall, walled off from each other.
C5_WitnessUnreachable ==
    /\ last # None
    /\ WellFormed(maze)
    /\ ~GoalReachable(maze)
    /\ ret = None
    /\ stats.nodes_visited > 1

\* C6: no cell is counted as visited more than once in a run, so the
\* recorded nodes_visited never exceeds rows * cols; a frontier entry A*
\* pops for a closed cell is not counted.
C6_VisitedBound ==
    last # None =>
        /\ NoRepeats(last.order)
        /\ stats.nodes_visited = Len(last.order)
        /\ stats.nodes_visited <= maze.rows * maze.cols

\* The same on the mazes whose start is a cell of the grid.
C6_VisitedBoundFromCell ==
    (last # None /\ maze.start \in GridCells(maze)) =>
        /\ NoRepeats(last.order)
        /\ stats.nodes_visited = Len(last.order)
        /\ stats.nodes_visited <= maze.rows * maze.cols

\* C7: when the goal is unreachable, the nodes_visited each of bfs(), dfs()
\* and astar() records is the number of cells reachable from the start, the
\* start included (so the three counts are equal).
C7_ExhaustsReachable ==
    (last # None /\ ~GoalReachable(maze))
        => stats.nodes_visited = Cardinality(ReachableCells(maze))

\* astar() has exhausted a maze with start and goal on cells that are not
\* Wall, discarding at least one entry of a closed cell on the way.
C7_Witness ==
    /\ Called("astar")
    /\ WellFormed(maze)
    /\ ~GoalReachable(maze)
    /\ last.discarded > 0
    /\ stats.nodes_visited = Cardinality(ReachableCells(maze))

C9_VisualizeOff ==
    [][ /\ ~last'.visualize => drawn' = << >>
        /\ (last # None /\ last'.method = last.method
                        /\ last'.visualize # last.visualize)
            => /\ ret' = ret
               /\ stats'.nodes_visited = stats.nodes_visited
               /\ stats'.path_length = stats.path_length
               /\ stats'.path_found = stats.path_found ]_vars

\* A run with visualize=false has visited cells beyond the start and drawn
\* nothing.
C9_Witness ==
    /\ last # None
    /\ ~last.visualize
    /\ Len(last.order) > 2
    /\ ret # None
    /\ drawn = << >>

\* the cells of a sequence other than s, in order
RECURSIVE Without(_, _)
Without(seq, s) ==
    IF seq = << >> THEN << >>
    ELSE IF Head(seq) = s THEN Without(Tail(seq), s)
    ELSE << Head(seq) >> \o Without(Tail(seq), s)

\* C10: with visualize=true the hook calls of a search are the visited
\* cells in visitation order with the start left out: one call per visited
\* cell other than the start, the goal included, nodes_visited - 1 in all.
C10_HookSequence ==
    (last # None /\ last.visualize) =>
        /\ Len(drawn) = stats.nodes_visited - 1
        /\ [i \in 1 .. Len(drawn) |-> <<drawn[i][1], drawn[i][2]>>]
               = Without(last.order, maze.start)
        /\ ret # None => <<maze.goal[1], maze.goal[2]>> \in
               {<<drawn[i][1], drawn[i][2]>> : i \in 1 .. Len(drawn)}
                    \cup {maze.start}

\* A search with visualize=true has found the goal some cells away and drawn
\* every visited cell but the start.
C10_Witness ==
    /\ last # None
    /\ last.visualize
    /\ ret # None
    /\ Len(drawn) > 2
    /\ Len(drawn) = stats.nodes_visited - 1
    /\ <<drawn[Len(drawn)][1], drawn[Len(drawn)][2]>> = maze.goal
---------------------------------------------------------------------------
\* two characters that are the same letter in either case, or the same
\* character
SameLetter(a, b) ==
    \/ a = b
    \/ \E i \in 1 .. Len(LowerCase) : {a, b} = {LowerCase[i], UpperCase[i]}

\* name is the word, letter case apart
SameWord(name, word) ==
    /\ Len(name) = Len(word)
    /\ \A i \in 1 .. Len(name) : SameLetter(name[i], word[i])

\* the method a name stands for, "unknown" when it stands for none
MethodNamed(name) ==
    IF SameWord(name, << "B", "F", "S" >>) THEN "bfs"
    ELSE IF SameWord(name, << "D", "F", "S" >>) THEN "dfs"
    ELSE IF SameWord(name, << "A", "S", "T", "A", "R" >>)
            \/ SameWord(name, << "A", "*" >>) THEN "astar"
    ELSE "unknown"

\* C11: run_algorithm matches the name against BFS, DFS, ASTAR and A*
\* whatever the case of its letters and runs the search named; for any other
\* name it raises ValueError, makes no hook call, and leaves the stored
\* statistics exactly as they were before the call.
C11_Dispatch ==
    [][ asked' # None =>
          IF MethodNamed(asked'.name) # "unknown"
          THEN /\ raised' = None
               /\ last'.method = MethodNamed(asked'.name)
          ELSE /\ raised' # None
               /\ raised'.error = "ValueError"
               /\ raised'.calls = << >>
               /\ stats' = stats
               /\ drawn' = drawn ]_vars

\* run_algorithm has refused a name after a search had stored statistics,
\* which are still the stored ones.
C11_Witness ==
    /\ asked # None
    /\ MethodNamed(asked.name) = "unknown"
    /\ raised # None
    /\ last # None
    /\ stats # << >>
    /\ stats.nodes_visited = Len(last.order)

\* run_algorithm has run A* under a name in mixed case.
C11_WitnessMixedCase ==
    /\ asked # None
    /\ asked.name = << "A", "s", "t", "a", "R" >>
    /\ raised = None
    /\ last.method = "astar"
    /\ stats.algorithm = "A*"
---------------------------------------------------------------------------
\* C12: no call of bfs, dfs, astar or run_algorithm changes the maze: rows,
\* cols, every grid cell, start and goal are after the call what they were
\* before it, whether or not a path is found.
C12_MazeUnchanged ==
    [][ /\ maze'.rows = maze.rows
        /\ maze'.cols = maze.cols
        /\ maze'.grid = maze.grid
        /\ maze'.start = maze.start
        /\ maze'.goal = maze.goal ]_vars

\* A search reached through run_algorithm has walked over Free cells to the
\* goal, and the cells it visited are Free as before.
C12_Witness ==
    /\ asked # None
    /\ raised = None
    /\ ret # None
    /\ Len(ret) > 2
    /\ \E i \in 1 .. Len(last.order) :
          /\ last.order[i] \in GridCells(maze)
          /\ maze.grid[last.order[i][1]][last.order[i][2]] = FREE
---------------------------------------------------------------------------
StatisticsKeys ==
    { "algorithm", "nodes_visited", "path_length", "time", "path_found" }

\* C13: after every completed search, found or not, get_statistics() gives
\* a full record (algorithm, nodes_visited, path_length, time, path_found)
\* of that search, and path_found is true exactly when the search returned
\* a path.
C13_StatisticsPopulated ==
    last # None =>
        LET record == get_statistics(stats).record
        IN  /\ DOMAIN record = StatisticsKeys
            /\ record.path_found \in BOOLEAN
            /\ record.path_found <=> (ret # None)
            /\ record.algorithm =
                   (CASE last.method = "bfs" -> "BFS"
                      [] last.method = "dfs" -> "DFS"
                      [] last.method = "astar" -> "A*")
            /\ record.nodes_visited = Len(last.order)
            /\ record.path_length = Len(ret)
            /\ record.time = Elapsed

\* A caller holds the record of a search that found no path: it is full,
\* with path_found false.
C13_Witness ==
    /\ last # None
    /\ ret = None
    /\ obtained # None
    /\ obtained.record = stats
    /\ DOMAIN obtained.record = StatisticsKeys
    /\ ~obtained.record.path_found
    /\ obtained.record.nodes_visited > 1
---------------------------------------------------------------------------
\* C14: every call of bfs(), dfs() and astar() terminates: its loop comes to
\* pop the goal or to empty its frontier, and the call then returns.
C14_Terminates == <>(run = None /\ last # None)

\* A call is in its loop after several passes, the goal not reached and
\* the frontier not yet empty.
C14_Witness ==
    /\ run # None
    /\ ~run.st.returned
    /\ run.st.nodes_visited >= 4
    /\ ENABLED SearchNext
---------------------------------------------------------------------------
\* C15: when maze.start equals maze.goal, each of bfs(), dfs() and astar()
\* returns the one-node path [start], with nodes_visited = 1, path_found
\* true and no hook call.
C15_StartIsGoal ==
    (last # None /\ maze.start = maze.goal) =>
        /\ ret = << maze.start >>
        /\ stats.nodes_visited = 1
        /\ stats.path_found
        /\ stats.path_length = 1
        /\ drawn = << >>

\* A search with visualize=true has run on a maze whose start is its goal,
\* a cell with a passable cell beside it.
C15_Witness ==
    /\ last # None
    /\ last.visualize
    /\ maze.start = maze.goal
    /\ Steps(maze, maze.start) # {}
    /\ ret = << maze.start >>
---------------------------------------------------------------------------
\* the coordinates get_neighbors is asked about
Probes(m) ==
    (-ProbeMargin .. m.rows - 1 + ProbeMargin)
        \X (-ProbeMargin .. m.cols - 1 + ProbeMargin)

\* the members of a sequence of coordinates that are in bounds and not Wall,
\* in the order of the sequence
PassableOf(m, cells) ==
    SelectSeq(cells, LAMBDA c : Passable(m, c))

\* C16: for every (row, col), negative and out-of-range values included,
\* get_neighbors returns exactly those of (row, col+1), (row+1, col),
\* (row, col-1), (row-1, col) that are in bounds and not Wall, in that order
\* (right, down, left, up).
C16_Neighbors ==
    \A p \in Probes(maze) :
        get_neighbors(maze, p[1], p[2]) =
            PassableOf(maze, << <<p[1], p[2] + 1>>, <<p[1] + 1, p[2]>>,
                                <<p[1], p[2] - 1>>, <<p[1] - 1, p[2]>> >>)

\* A search has asked for the neighbors of a coordinate outside the grid
\* (its stale start) and gone on from the one it got, and the grid has a
\* cell with a passable cell to its right and another below.
C16_Witness ==
    /\ last # None
    /\ last.order[1] \notin GridCells(maze)
    /\ Len(last.order) >= 2
    /\ \E p \in GridCells(maze) :
          Len(get_neighbors(maze, p[1], p[2])) >= 2
---------------------------------------------------------------------------
\* what the engine holds and has done, as opposed to what a caller holds
EngineSide == <<maze, stats, ret, drawn, last, first, raised, run, asked>>

\* C17: a record obtained from get_statistics() is not changed by any later
\* search on the same engine, and modifying the obtained record does not
\* change what a later get_statistics() returns: no step changes both the
\* record a caller holds and anything on the engine's side.
C17_RecordOwned ==
    [][ (obtained # None /\ obtained' # None) =>
          /\ EngineSide' # EngineSide => obtained'.record = obtained.record
          /\ obtained'.record # obtained.record =>
                get_statistics(stats').record = get_statistics(stats).record
      ]_vars

\* A caller obtained the record of a BFS search and wrote into it; a DFS
\* search ran later; get_statistics() would now give the DFS record, and the
\* caller's record still is the BFS one with what the caller wrote.
C17_Witness ==
    /\ obtained # None
    /\ DOMAIN obtained.record = StatisticsKeys
    /\ obtained.record.algorithm = "BFS"
    /\ obtained.record.nodes_visited \in WrittenValues
    /\ last # None
    /\ last.method = "dfs"
    /\ get_statistics(stats).record.algorithm = "DFS"
    /\ get_statistics(stats).record.nodes_visited = Len(last.order)
---------------------------------------------------------------------------
\* Maze: construction and generation (maze.py).  random.random(),
\* random.randint(), random.choice() and random.sample() are choices among
\* their outcomes.

\* random.random() < p comes out true at most in the first MaxCoins draws of
\* a loop.
MaxCoins == 2

Min(a, b) == IF a < b THEN a ELSE b
Max(a, b) == IF a > b THEN a ELSE b

\* range(lo, hi, step)
range(lo, hi, step) == {x \in lo .. hi - 1 : (x - lo) % step = 0}

\* [[FREE for _ in range(cols)] for _ in range(rows)]
FreeGrid(rows, cols) ==
    [r \in 0 .. rows - 1 |-> [c \in 0 .. cols - 1 |-> FREE]]

\* grid[row][col] = v for every (row, col) of cells, all of them in range
SetCells(grid, cells, v) ==
    [r \in DOMAIN grid |->
       [c \in DOMAIN grid[r] |->
          IF <<r, c>> \in cells THEN v ELSE grid[r][c]]]

\* _add_borders(): the first and last row and column become Wall.
_add_borders(m) ==
    [m EXCEPT !.grid =
        SetCells(@, {x \in CellsOf(<<m.rows, m.cols>>) :
                        \/ x[1] = 0 \/ x[1] = m.rows - 1
                        \/ x[2] = 0 \/ x[2] = m.cols - 1}, WALL)]

\* the grid of lines 31-34, 52-53, 79-80, 122-123, 136-137
Bordered(m) ==
    _add_borders([m EXCEPT !.grid = FreeGrid(m.rows, m.cols)])

_is_valid_wall_position(m, row, col) ==
    (0 < row /\ row < m.rows - 1) /\ (0 < col /\ col < m.cols - 1)

\* the scan orders of the loops: rows outside, or columns outside
RowMajor(a, b) == a[1] < b[1] \/ (a[1] = b[1] /\ a[2] < b[2])
ColMajor(a, b) == a[2] < b[2] \/ (a[2] = b[2] /\ a[1] < b[1])

\* The sets of cells a loop of `if random.random() < p: grid[..] = WALL` over
\* the candidates can turn into Wall: any of those within its first MaxCoins
\* draws.
RECURSIVE Leading(_, _, _)
Leading(candidates, columns_first, k) ==
    IF k = 0 \/ candidates = {} THEN {}
    ELSE LET x == CHOOSE x \in candidates :
                      \A y \in candidates :
                          IF columns_first THEN ~ColMajor(y, x)
                          ELSE ~RowMajor(y, x)
         IN  {x} \cup Leading(candidates \ {x}, columns_first, k - 1)

Coins(candidates, columns_first) ==
    SUBSET Leading(candidates, columns_first, MaxCoins)

\* The outcome of an operation: the Maze it leaves, and whether it returned
\* or raised.
Returned(m) == [ok |-> TRUE, error |-> "", m |-> m]
Raised(error, m) == [ok |-> FALSE, error |-> error, m |-> m]

\* _set_start_goal(): start and goal are assigned, then grid[1][1] = START
\* (IndexError when the grid has no row 1 or no column 1; otherwise
\* rows - 2 and cols - 2 are indexes of the grid), then the goal cell.
_set_start_goal(m) ==
    LET placed == [m EXCEPT !.start = <<1, 1>>,
                            !.goal = <<m.rows - 2, m.cols - 2>>]
    IN  IF ~is_valid_position(m, 1, 1)
        THEN Raised("IndexError", placed)
        ELSE Returned([placed EXCEPT !.grid =
                 SetCells(SetCells(@, {placed.start}, START),
                          {placed.goal}, GOAL)])

\* Mutant of _create_guaranteed_path: only the start row is cleared.
_create_guaranteed_path_row(m) ==
    LET route == {<<m.start[1], c>> :
                     c \in IF m.start[2] < m.goal[2]
                           THEN m.start[2] + 1 .. m.goal[2]
                           ELSE m.goal[2] .. m.start[2] - 1}
    IN  [m EXCEPT !.grid = SetCells(@, route \ {m.start, m.goal}, FREE)]

\* the values current_col / current_row takes walking from a to b
Walk(a, b) == IF a < b THEN a + 1 .. b ELSE b .. a - 1

\* _create_guaranteed_path(): the cells along the start row to the goal
\* column, then along the goal column to the goal row, become Free, start
\* and goal excepted.
_create_guaranteed_path(m) ==
    LET route == {<<m.start[1], c>> : c \in Walk(m.start[2], m.goal[2])}
                 \cup {<<r, m.goal[2]>> : r \in Walk(m.start[1], m.goal[1])}
    IN  [m EXCEPT !.grid = SetCells(@, route \ {m.start, m.goal}, FREE)]

\* the last two calls of every _generate_*_maze
Finish(m) ==
    LET set == _set_start_goal(m)
    IN  IF set.ok THEN Returned(_create_guaranteed_path(set.m)) ELSE set

WithWalls(m, cells) == [m EXCEPT !.grid = SetCells(@, cells, WALL)]

\* _generate_pattern_maze(): walls on every 4th column, then on every 4th
\* row.
_generate_pattern_maze(m) ==
    LET column_cells == range(2, m.rows - 2, 1) \X range(3, m.cols - 3, 4)
        row_cells == range(3, m.rows - 3, 4) \X range(2, m.cols - 2, 1)
    IN  {Finish(WithWalls(Bordered(m), on_columns \cup on_rows)) :
            <<on_columns, on_rows>> \in
                Coins(column_cells, TRUE) \X Coins(row_cells, FALSE)}

\* the patterns of lines 56-65
patterns ==
    << {<<3, 5>>, <<4, 5>>, <<5, 5>>, <<5, 6>>, <<5, 7>>},
       {<<7, 8>>, <<8, 8>>, <<9, 8>>, <<10, 8>>},
       {<<3, 12>>, <<4, 12>>, <<5, 12>>, <<6, 12>>},
       {<<8, 3>>, <<8, 4>>, <<8, 5>>, <<7, 4>>, <<9, 4>>},
       {<<5, 15>>, <<6, 15>>, <<7, 15>>, <<6, 14>>, <<6, 16>>} >>

\* _generate_classroom_maze(): random.sample(patterns, random.randint(2, 4)),
\* each cell of a selected pattern a Wall where _is_valid_wall_position.
_generate_classroom_maze(m) ==
    {Finish(WithWalls(Bordered(m),
            {x \in UNION {patterns[i] : i \in selected} :
                _is_valid_wall_position(m, x[1], x[2])})) :
        selected \in {S \in SUBSET DOMAIN patterns :
                         Cardinality(S) \in 2 .. 4}}

\* _generate_random_maze()
_generate_random_maze(m) ==
    LET inner == range(2, m.rows - 2, 1) \X range(2, m.cols - 2, 1)
    IN  {Finish(WithWalls(Bordered(m), walls)) :
            walls \in Coins(inner, FALSE)}

\* generate_simple_maze(): random.choice of the three styles
generate_simple_maze(m) ==
    _generate_pattern_maze(m)
        \cup _generate_classroom_maze(m)
        \cup _generate_random_maze(m)

\* _generate_easy_maze()
_generate_easy_maze(m) ==
    LET sparse == range(3, m.rows - 3, 6) \X range(3, m.cols - 3, 1)
    IN  {Finish(WithWalls(Bordered(m), walls)) :
            walls \in Coins(sparse, FALSE)}

\* random.randint(a, b); no outcome (ValueError) when the range is empty
randint(a, b) == a .. b

\* the ends of a range
Ends(S) == {x \in S : (\A y \in S : x <= y) \/ (\A y \in S : y <= x)}

\* the cells one pass of the loop of lines 146-158 makes Wall
Corridor(m, start_row, start_col, length, horizontal) ==
    IF horizontal
    THEN {x \in {<<start_row, c>> :
                    c \in range(start_col,
                                Min(start_col + length, m.cols - 2), 1)} :
             _is_valid_wall_position(m, x[1], x[2])}
    ELSE {x \in {<<r, start_col>> :
                    r \in range(start_row,
                                Min(start_row + length, m.rows - 2), 1)} :
             _is_valid_wall_position(m, x[1], x[2])}

\* The corridors drawn: start_row and start_col both at the low end or both
\* at the high end of their ranges, the length at either end of its range,
\* either direction.
Corridors(m) ==
    {Corridor(m, d[1], d[2], d[3], d[4]) :
        d \in {x \in Ends(randint(2, m.rows - 3))
                        \X Ends(randint(2, m.cols - 3))
                        \X Ends(randint(3, 6)) \X BOOLEAN :
                  (x[1] = 2) <=> (x[2] = 2)}}

\* _generate_hard_maze(): random walls, then three corridors; the first
\* randint of an empty range raises before start and goal are set.
_generate_hard_maze(m) ==
    LET inner == range(2, m.rows - 2, 1) \X range(2, m.cols - 2, 1)
    IN  IF randint(2, m.rows - 3) = {} \/ randint(2, m.cols - 3) = {}
        THEN {Raised("ValueError", WithWalls(Bordered(m), walls)) :
                 walls \in Coins(inner, FALSE)}
        ELSE {Finish(WithWalls(Bordered(m), walls \cup corridors)) :
                 <<walls, corridors>> \in
                     Coins(inner, FALSE)
                         \X {t[1] \cup t[2] \cup t[3] :
                                t \in Corridors(m) \X Corridors(m)
                                                   \X Corridors(m)}}

\* generate_maze_by_difficulty(difficulty)
generate_maze_by_difficulty(m, difficulty) ==
    IF difficulty = "easy" THEN _generate_easy_maze(m)
    ELSE IF difficulty = "hard" THEN _generate_hard_maze(m)
    ELSE generate_simple_maze(m)

\* generate_maze_with_size(new_rows, new_cols)
generate_maze_with_size(m, new_rows, new_cols) ==
    generate_simple_maze([m EXCEPT !.rows = Max(10, Min(30, new_rows)),
                                   !.cols = Max(15, Min(40, new_cols))])

\* the wall_patterns of lines 250-260
wall_patterns ==
    << {<<3, 5>>, <<4, 5>>, <<5, 5>>},
       {<<7, 8>>, <<8, 8>>, <<9, 8>>},
       {<<3, 12>>, <<4, 12>>, <<5, 12>>, <<6, 12>>},
       {<<6, 3>>, <<6, 4>>, <<6, 5>>},
       {<<10, 8>>, <<10, 9>>, <<10, 10>>, <<10, 11>>},
       {<<4, 15>>, <<4, 16>>, <<4, 17>>} >>

\* create_classroom_style_maze()
create_classroom_style_maze(m) ==
    Finish(WithWalls(Bordered(m),
           {x \in UNION {wall_patterns[i] : i \in DOMAIN wall_patterns} :
               (0 < x[1] /\ x[1] < m.rows - 1)
                   /\ (0 < x[2] /\ x[2] < m.cols - 1)}))

\* validate_maze()
validate_maze(m) ==
    IF m.start = None THEN Raised("ValueError", m)
    ELSE IF m.goal = None THEN Raised("ValueError", m)
    ELSE Returned(m)

\* reset_maze()
reset_maze(m) ==
    [m EXCEPT !.grid =
        [r \in DOMAIN m.grid |->
           [c \in DOMAIN m.grid[r] |->
              IF m.grid[r][c] \notin {WALL, START, GOAL}
              THEN FREE ELSE m.grid[r][c]]]]
---------------------------------------------------------------------------
\* Sessions on a Maze object: Maze(rows, cols), then any of its operations.

\* Maze(rows, cols) for these; the constructor raises IndexError for
\* rows < 2 or cols < 2 and leaves no object.
ConstructorShapes == { <<2, 2>>, <<3, 3>>, <<4, 4>>, <<5, 5>>, <<7, 7>> }

\* generate_maze_with_size(new_rows, new_cols) for these
SizesAsked == { <<0, 0>>, <<10, 15>> }

Difficulties == { "easy", "medium", "hard" }

\* load_from_list(maze_list) for every 2-D list of these shapes over Wall,
\* Free, Start, Goal
ListShapes == { <<1, 3>> }
AllLists(shape) ==
    [0 .. shape[1] - 1 -> [0 .. shape[2] - 1 -> {WALL, FREE, START, GOAL}]]

\* lines 9-13
Blank(rows, cols) ==
    [rows |-> rows, cols |-> cols, grid |-> << >>,
     start |-> None, goal |-> None]

MazeInit ==
    /\ \E shape \in ConstructorShapes :
         \E made \in generate_simple_maze(Blank(shape[1], shape[2])) :
            /\ made.ok
            /\ maze = made.m
    /\ stats = << >>
    /\ ret = None
    /\ drawn = << >>
    /\ last = [method |-> "__init__"]
    /\ first = None
    /\ raised = None
    /\ obtained = None
    /\ run = None
    /\ asked = None

\* The operation leaves the Maze of its outcome; an exception is seen by
\* the caller.
Leave(method, outcome) ==
    /\ maze' = outcome.m
    /\ raised' = IF outcome.ok THEN None ELSE [error |-> outcome.error]
    /\ last' = [method |-> method]
    /\ UNCHANGED <<stats, ret, drawn, first, obtained, run, asked>>

GenerateSimpleMaze ==
    \E outcome \in generate_simple_maze(maze) :
        Leave("generate_simple_maze", outcome)

GenerateMazeByDifficulty(difficulty) ==
    \E outcome \in generate_maze_by_difficulty(maze, difficulty) :
        Leave("generate_maze_by_difficulty", outcome)

GenerateMazeWithSize(new_rows, new_cols) ==
    \E outcome \in generate_maze_with_size(maze, new_rows, new_cols) :
        Leave("generate_maze_with_size", outcome)

CreateClassroomStyleMaze ==
    /\ maze.rows > 0
    /\ Leave("create_classroom_style_maze", create_classroom_style_maze(maze))

LoadFromList(maze_list, shape) ==
    /\ maze_list \in AllLists(shape)
    /\ Leave("load_from_list", Returned(load_from_list(maze, maze_list, shape)))

ResetMaze ==
    /\ maze.rows > 0
    /\ Leave("reset_maze", Returned(reset_maze(maze)))

\* validate_maze() on the Maze as the last operation left it
ValidateMaze ==
    /\ last.method # "validate_maze"
    /\ maze' = maze
    /\ raised' = IF validate_maze(maze).ok THEN None
                 ELSE [error |-> validate_maze(maze).error]
    /\ last' = [method |-> "validate_maze", of |-> last.method]
    /\ UNCHANGED <<stats, ret, drawn, first, obtained, run, asked>>

MazeNext ==
    \/ GenerateSimpleMaze
    \/ \E difficulty \in Difficulties : GenerateMazeByDifficulty(difficulty)
    \/ \E size \in SizesAsked : GenerateMazeWithSize(size[1], size[2])
    \/ CreateClassroomStyleMaze
    \/ \E shape \in ListShapes : \E maze_list \in AllLists(shape) :
          LoadFromList(maze_list, shape)
    \/ ResetMaze
    \/ ValidateMaze

MazeSpec == MazeInit /\ [][MazeNext]_vars
---------------------------------------------------------------------------
\* how many cells of the grid hold v
CountOf(m, v) ==
    Cardinality({x \in CellsOf(<<m.rows, m.cols>>) : m.grid[x[1]][x[2]] = v})

\* C18: for a maze loaded with load_from_list, validate_maze() raises an
\* error whenever the loaded grid has no Start cell, no Goal cell, or more
\* than one Start or Goal cell, also when the Maze object held another maze
\* before.
C18_ValidateRaises ==
    ( /\ last.method = "validate_maze"
      /\ last.of = "load_from_list"
      /\ (CountOf(maze, START) # 1 \/ CountOf(maze, GOAL) # 1) )
        => raised # None

\* the cell at a coordinate, if it is one of the grid
Holds(m, at, v) ==
    /\ at # None
    /\ is_valid_position(m, at[1], at[2])
    /\ m.grid[at[1]][at[2]] = v

\* C19: after any sequence of Maze operations (construction, generate_*,
\* load_from_list of a non-empty rectangular grid over Wall, Free, Start,
\* Goal, reset_maze), maze.start and maze.goal are in-bounds coordinates of
\* the current grid and the cells at them hold Start and Goal.
C19_StartGoalCells ==
    /\ Holds(maze, maze.start, START)
    /\ Holds(maze, maze.goal, GOAL)

GenerationOperations ==
    { "__init__", "generate_simple_maze", "generate_maze_by_difficulty",
      "generate_maze_with_size", "create_classroom_style_maze" }

\* C20: after every maze-generation operation (the constructor,
\* generate_simple_maze, generate_maze_by_difficulty,
\* generate_maze_with_size, create_classroom_style_maze), for every rows,
\* cols and every outcome of the random choices, the grid contains exactly
\* one Start cell and exactly one Goal cell.
C20_OneStartOneGoal ==
    last.method \in GenerationOperations =>
        /\ CountOf(maze, START) = 1
        /\ CountOf(maze, GOAL) = 1
---------------------------------------------------------------------------
\* the L-shaped route: along the start row from the start to the goal
\* column, then along the goal column to the goal
Route(m) ==
    {<<m.start[1], c>> :
        c \in Min(m.start[2], m.goal[2]) .. Max(m.start[2], m.goal[2])}
      \cup
    {<<r, m.goal[2]>> :
        r \in Min(m.start[1], m.goal[1]) .. Max(m.start[1], m.goal[1])}

---------------------------------------------------------------------------
\* The coordinates at 0, 1, 2, ... steps from the start: Layers(..)[k + 1]
\* holds those whose shortest distance from the start is k.
RECURSIVE LayersFrom(_, _, _)
LayersFrom(m, seen, S) ==
    IF S = {} THEN << >>
    ELSE LET new == Grow(m, seen, S)
         IN  << S >> \o LayersFrom(m, seen \cup new, new)

Layers(m) == LayersFrom(m, {m.start}, {m.start})

\* the shortest distance from the start of a coordinate reachable from it
DistanceIn(layers, c) ==
    (CHOOSE k \in 1 .. Len(layers) : c \in layers[k]) - 1

\* the method whose call is being followed, or has just returned
Following(method) == run # None /\ run.method = method

\* C22: in bfs(), cells are dequeued in non-decreasing order of their
\* shortest distance from the start: no cell at distance d+1 is visited
\* before a cell at distance d that is visited in the same run.
C22_BfsByDistance ==
    Following("bfs") =>
        LET layers == Layers(maze)
            order == run.st.order
        IN  \A i \in 1 .. Len(order) - 1 :
                DistanceIn(layers, order[i]) <= DistanceIn(layers, order[i + 1])

\* A bfs() call in its loop has dequeued cells at distance 0, 1 and 2, two
\* of them at the same distance.
C22_Witness ==
    /\ Following("bfs")
    /\ ~run.st.returned
    /\ Len(run.st.order) >= 4
    /\ LET layers == Layers(maze)
           order == run.st.order
       IN  /\ DistanceIn(layers, order[Len(order)]) = 2
           /\ \E i \in 1 .. Len(order) - 1 :
                 DistanceIn(layers, order[i]) = DistanceIn(layers, order[i + 1])
---------------------------------------------------------------------------
\* the neighbors of a cell, in the order right, down, left, up, that are not
\* in the set
Undiscovered(m, current, discovered) ==
    SelectSeq(get_neighbors(m, current[1], current[2]),
              LAMBDA n : n \notin discovered)

\* the items of a sequence, as a set
Items(s) == {s[i] : i \in DOMAIN s}

\* C23: in dfs(), whenever an expanded cell has at least one
\* not-yet-discovered neighbor, the very next cell visited is that cell's
\* first not-yet-discovered neighbor in the order right, down, left, up; and
\* each neighbor is marked visited at the moment it is pushed, so no cell is
\* ever on the stack twice.
C23_DfsOrder ==
    [][ (Following("dfs") /\ run' # None /\ run'.st.order # run.st.order) =>
          LET before == run.st
              after == run'.st
              current == after.order[Len(after.order)]
              fresh == Undiscovered(maze, current, before.visited)
          IN  \* the cell visited is the one on top of the stack
              /\ current = before.stack[Len(before.stack)]
              /\ after.order = Append(before.order, current)
              \* an expanded cell leaves its first fresh neighbor on top
              /\ (~after.returned /\ fresh # << >>) =>
                     after.stack[Len(after.stack)] = fresh[1]
              \* what is pushed is marked, and nothing else is
              /\ ~after.returned =>
                     /\ after.visited = before.visited \cup Items(fresh)
                     /\ Len(after.stack) = Len(before.stack) - 1 + Len(fresh)
              \* no cell is on the stack twice, and all of them are marked
              /\ NoRepeats(after.stack)
              /\ Items(after.stack) \subseteq after.visited
      ]_vars

\* A dfs() call in its loop has just expanded a cell with two
\* not-yet-discovered neighbors, while an older cell is still on the stack.
C23_Witness ==
    /\ Following("dfs")
    /\ ~run.st.returned
    /\ Len(run.st.order) >= 2
    /\ Len(run.st.stack) >= 3
    /\ LET st == run.st
           current == st.order[Len(st.order)]
       IN  /\ st.parent[st.stack[Len(st.stack)]] = current
           /\ st.parent[st.stack[Len(st.stack) - 1]] = current
           /\ st.parent[st.stack[1]] # current
---------------------------------------------------------------------------
\* C24: in astar(), at the moment a cell is added to the closed (visited)
\* set its recorded g_score equals its shortest distance from the start, and
\* the g_score and predecessor of a closed cell are never changed
\* afterwards.
C24_ClosedIsFinal ==
    [][ (Following("astar") /\ run' # None) =>
          LET before == run.st
              after == run'.st
              layers == Layers(maze)
          IN  /\ \A c \in after.visited \ before.visited :
                    /\ c \in DOMAIN before.g_score
                    /\ before.g_score[c] = DistanceIn(layers, c)
                    /\ after.g_score[c] = before.g_score[c]
              /\ \A c \in before.visited :
                    /\ c \in after.visited
                    /\ after.g_score[c] = before.g_score[c]
                    /\ Get(after.came_from, c) = Get(before.came_from, c)
      ]_vars

\* An astar() call in its loop has closed a cell two steps from the start
\* and has met an entry of a cell that was closed already (the cell was
\* pushed again when a shorter way to it was found).
C24_Witness ==
    /\ Following("astar")
    /\ ~run.st.returned
    /\ run.st.discarded > 0
    /\ \E c \in run.st.visited :
          /\ run.st.g_score[c] = 2
          /\ c \in DOMAIN run.st.came_from
---------------------------------------------------------------------------
\* (row, col) before or equal to another lexicographically
LexLeq(c, d) == c[1] < d[1] \/ (c[1] = d[1] /\ c[2] <= d[2])

\* C25: in astar(), when several frontier entries share the minimum f_score,
\* the entry popped is the one whose coordinate (row, col) is
\* lexicographically smallest (so that the path returned among equal-cost
\* shortest paths is a fixed function of the maze).
C25_TieBreak ==
    [][ (Following("astar") /\ run' # None /\ ~run.st.returned
            /\ run.st.open_set # << >>) =>
          LET before == run.st
              after == run'.st
              entry == heappop(before.open_set).item
          IN  \* the entry popped is the one this pass deals with
              /\ \/ after.order = Append(before.order, entry[2])
                 \/ /\ entry[2] \in before.visited
                    /\ after.order = before.order
                    /\ after.discarded = before.discarded + 1
              \* it has the minimum f_score and, among those, the least cell
              /\ \A e \in Items(before.open_set) :
                    \/ entry[1] < e[1]
                    \/ entry[1] = e[1] /\ LexLeq(entry[2], e[2])
      ]_vars

\* An astar() call in its loop holds two entries of different cells with the
\* minimum f_score, the one pushed later having the smaller coordinate.
C25_Witness ==
    /\ Following("astar")
    /\ ~run.st.returned
    /\ Len(run.st.order) >= 1
    /\ Len(run.st.open_set) >= 2
    /\ run.st.open_set[1][1] = run.st.open_set[2][1]
    /\ run.st.open_set[1][2] # run.st.open_set[2][2]
    /\ LET first_cell == run.st.open_set[1][2]
           second_cell == run.st.open_set[2][2]
           opened == run.st.order[Len(run.st.order)]
       IN  /\ run.st.came_from[first_cell] = opened
           /\ run.st.came_from[second_cell] # opened
---------------------------------------------------------------------------
\* the tag of a search method
TagOf(method) ==
    CASE method = "bfs" -> "BFS"
      [] method = "dfs" -> "DFS"
      [] method = "astar" -> "ASTAR"

\* C26: the algorithm recorded in the statistics of a run is one of BFS,
\* DFS, ASTAR, names the algorithm that was dispatched, and is the same tag
\* that was passed to the visualization hook during that run.
C26_AlgorithmTag ==
    last # None =>
        /\ stats.algorithm \in {"BFS", "DFS", "ASTAR"}
        /\ stats.algorithm = TagOf(last.method)
        /\ \A i \in DOMAIN drawn : drawn[i][3] = stats.algorithm
---------------------------------------------------------------------------
\* the predecessor map of the call followed: parent in bfs() and dfs(),
\* came_from in astar()
Predecessors ==
    IF run.method = "astar" THEN run.st.came_from ELSE run.st.parent

\* the cells the call has discovered: visited in bfs() and dfs() (marked
\* when pushed), those with a g_score in astar()
Discovered ==
    IF run.method = "astar" THEN DOMAIN run.st.g_score ELSE run.st.visited

\* following predecessors from c reaches the start without repeating a cell
RECURSIVE LeadsToStart(_, _, _, _)
LeadsToStart(pred, c, s, seen) ==
    IF c = s THEN TRUE
    ELSE IF c \in seen \/ c \notin DOMAIN pred THEN FALSE
    ELSE IF pred[c] = None THEN FALSE
    ELSE LeadsToStart(pred, pred[c], s, seen \cup {c})

---------------------------------------------------------------------------
\* C28: on every maze, the nodes_visited astar() records is at most the
\* nodes_visited bfs() records on the same maze (here: the session's first
\* call and its latest call are one bfs() and one astar(), in either
\* order).
C28_AstarVisitsNoMore ==
    /\ (first # None /\ first.method = "bfs" /\ last.method = "astar")
          => stats.nodes_visited <= first.nodes_visited
    /\ (first # None /\ first.method = "astar" /\ last.method = "bfs")
          => first.nodes_visited <= stats.nodes_visited

\* astar() has run after bfs() on a well-formed maze where the route goes
\* round a wall, and has visited strictly fewer cells.
C28_Witness ==
    /\ first # None
    /\ first.method = "bfs"
    /\ Called("astar")
    /\ WellFormed(maze)
    /\ ret # None
    /\ Len(ret) - 1 > manhattan_distance(maze.start, maze.goal)
    /\ stats.nodes_visited < first.nodes_visited

\* astar() has run after bfs() where the goal cannot be reached and both
\* have visited every reachable cell, astar() discarding a stale entry.
C28_WitnessUnreachable ==
    /\ first # None
    /\ first.method = "bfs"
    /\ Called("astar")
    /\ ~GoalReachable(maze)
    /\ last.discarded > 0
    /\ stats.nodes_visited = first.nodes_visited
---------------------------------------------------------------------------
\* C29: whenever a search returns a path, the path_length recorded in its
\* statistics is the number of cells on the returned path, its edge count
\* plus one, for all three algorithms.
C29_PathLength ==
    (last # None /\ ret # None) =>
        /\ stats.path_found
        /\ stats.path_length = Len(ret)

\* Each of the three algorithms has returned a path of three cells or more
\* on a well-formed maze.
C29_WitnessBfs ==
    Called("bfs") /\ WellFormed(maze) /\ ret # None /\ stats.path_length >= 3

C29_WitnessDfs ==
    /\ Called("dfs")
    /\ WellFormed(maze)
    /\ ret # None
    /\ stats.path_length > Distance(maze) + 1

C29_WitnessAstar ==
    Called("astar") /\ WellFormed(maze) /\ ret # None /\ stats.path_length >= 3
---------------------------------------------------------------------------
\* C30: the initial A* frontier is the single entry
\* (heuristic(start, goal), start): the priority stored with the start cell
\* is the Manhattan distance from the start to the goal.
C30_FrontierSeed ==
    (/\ Following("astar")
     /\ ~run.st.returned
     /\ run.st.nodes_visited = 0
     /\ run.st.discarded = 0)
        => run.st.open_set =
              << <<manhattan_distance(maze.start, maze.goal), maze.start>> >>

====
